---- MODULE Spec2Model ----
(***************************************************************************)
(* A model of merge-config.py: the recursive merge (deep_merge), the       *)
(* dotted-path accessors (get_nested, set_nested) and the driver (main).   *)
(*                                                                         *)
(* JSON text on disk is a nested, immutable value (a "document").  Python  *)
(* objects in memory live on a heap: a dict or a list is an object with an *)
(* address, and a value is either a scalar or a reference to an object, so *)
(* that in-place mutation and sharing are visible.  A dict is a finite map *)
(* from keys to values; the insertion order of its keys is not modelled    *)
(* (Python's == on dicts ignores it).                                      *)
(*                                                                         *)
(* A string that is used as a path or as a key is a sequence of tokens;    *)
(* the token "." is the separator str.split(".") cuts at.                  *)
(***************************************************************************)
EXTENDS Integers, Sequences, FiniteSets, TLC

VARIABLES
    fs,          \* the files: fs.source, fs.target, fs.backup
    args,        \* the flags of the command line (sys.argv[1:])
    pc,          \* position in main (or in the library call sequence)
    heap,        \* the Python objects allocated so far
    source,      \* main's `source` (value or reference)
    target,      \* main's `target`
    sections_to_merge,  \* main's list of (src_path, tgt_path) still to process
    changes,     \* main's `changes` list: <<tgt_path, verdict>>
    skipped,     \* the paths reported as "Skipping ... (not found in source)"
    exit_code,   \* -1 while running, else the exit status of the process
    run,         \* number of the current run (consecutive invocations)
    fs0,         \* history: the files as they were when the current run began
    fsInit,      \* history: the files as they were before the first run
    writes,      \* history: number of writes of the target file in this run
    path,        \* library calls: the dotted path argument
    ret,         \* library calls: the value returned by the last call
    heap0,       \* history: the heap before the first library call
    first,       \* history: the document returned by the first library call
    source2,     \* library calls: a second source merged into the same target
    heap1        \* history: the heap before the call that merges source2

libvars == <<path, ret, heap0, first, source2, heap1>>
vars == <<fs, args, pc, heap, source, target, sections_to_merge, changes,
          skipped, exit_code, run, fs0, fsInit, writes, libvars>>

-----------------------------------------------------------------------------
(* Bounds of the checked instances.                                        *)

MaxRuns == 2        \* consecutive runs of the driver on the same files
MaxModels == 2      \* length of the source's provider model list
MaxDepth == 2       \* deepest nesting of dicts in the library trees
MaxListLen == 2     \* longest list in the library trees
MaxPathLen == 3     \* longest dotted path, in tokens, of the library calls

-----------------------------------------------------------------------------
(* Values.                                                                 *)

None == [t |-> "null"]
JBool(b) == [t |-> "bool", b |-> b]
JInt(n) == [t |-> "int", n |-> n]
JStr(s) == [t |-> "str", s |-> s]
JList(seq) == [t |-> "list", elems |-> seq]
JDict(f) == [t |-> "dict", items |-> f]
Ref(a) == [t |-> "ref", a |-> a]
\* The outcome of a call that raised an exception instead of returning.
Raised == [t |-> "raise"]

EmptyMap == [k \in {} |-> None]

\* A key made of one token, e.g. K("models").
K(tok) == <<tok>>

IsRef(x) == x.t = "ref"
\* isinstance(x, dict) / isinstance(x, list) for a value x on heap h
IsDict(h, x) == IsRef(x) /\ h[x.a].t = "dict"
IsList(h, x) == IsRef(x) /\ h[x.a].t = "list"

\* Allocation of a new object
Alloc(h, obj) == [h |-> Append(h, obj), r |-> Ref(Len(h) + 1)]

\* obj[key] = val on a dict object
SetItem(h, obj, key, val) == [h EXCEPT ![obj.a].items = (key :> val) @@ @]

\* key in obj, for a dict object
HasKey(h, obj, key) == key \in DOMAIN h[obj.a].items

-----------------------------------------------------------------------------
(* json.load / json.loads: a document becomes fresh objects on the heap;   *)
(* json.dump / json.dumps: the objects reachable from a value become a     *)
(* document.                                                               *)

RECURSIVE json_loads(_, _), LoadItems(_, _, _, _), LoadElems(_, _, _, _)

LoadItems(h, f, keys, acc) ==
    IF keys = {} THEN Alloc(h, JDict(acc))
    ELSE LET k == CHOOSE x \in keys : TRUE
             c == json_loads(h, f[k])
         IN  LoadItems(c.h, f, keys \ {k}, (k :> c.r) @@ acc)

LoadElems(h, s, i, acc) ==
    IF i > Len(s) THEN Alloc(h, JList(acc))
    ELSE LET c == json_loads(h, s[i])
         IN  LoadElems(c.h, s, i + 1, Append(acc, c.r))

json_loads(h, doc) ==
    IF doc.t = "dict" THEN LoadItems(h, doc.items, DOMAIN doc.items, EmptyMap)
    ELSE IF doc.t = "list" THEN LoadElems(h, doc.elems, 1, <<>>)
    ELSE [h |-> h, r |-> doc]

RECURSIVE json_dumps(_, _)
json_dumps(h, x) ==
    IF IsDict(h, x)
    THEN JDict([k \in DOMAIN h[x.a].items |-> json_dumps(h, h[x.a].items[k])])
    ELSE IF IsList(h, x)
    THEN JList([i \in 1..Len(h[x.a].elems) |-> json_dumps(h, h[x.a].elems[i])])
    ELSE x

-----------------------------------------------------------------------------
(* Python's == on loaded JSON values: bool is a subtype of int, so         *)
(* True == 1 and False == 0; dicts and lists compare by content.           *)

IsNum(x) == x.t \in {"bool", "int"}
Num(x) == IF x.t = "bool" THEN (IF x.b THEN 1 ELSE 0) ELSE x.n

RECURSIVE PyEq(_, _, _)
PyEq(h, a, b) ==
    IF IsRef(a) /\ IsRef(b)
    THEN LET x == h[a.a]
             y == h[b.a]
         IN  IF x.t # y.t THEN FALSE
             ELSE IF x.t = "dict"
             THEN /\ DOMAIN x.items = DOMAIN y.items
                  /\ \A k \in DOMAIN x.items : PyEq(h, x.items[k], y.items[k])
             ELSE /\ Len(x.elems) = Len(y.elems)
                  /\ \A i \in 1..Len(x.elems) : PyEq(h, x.elems[i], y.elems[i])
    ELSE IF IsRef(a) \/ IsRef(b) THEN FALSE
    ELSE IF IsNum(a) /\ IsNum(b) THEN Num(a) = Num(b)
    ELSE a.t = b.t /\ a = b

-----------------------------------------------------------------------------
(* deep_merge(target, source)                                              *)

RECURSIVE deep_merge(_, _, _), MergeKeys(_, _, _, _)

\* MergeKey with the recursion lost: a dict in source replaces the dict in
\* target instead of being merged into it.
MergeKey_replace(h, t, s, key) == SetItem(h, t, key, h[s.a].items[key])

\* MergeKey with lists appended instead of replaced.
MergeKey_extend(h, t, s, key) ==
    LET sv == h[s.a].items[key]
    IN  IF HasKey(h, t, key)
        THEN LET tv == h[t.a].items[key]
             IN  IF IsDict(h, tv) /\ IsDict(h, sv)
                 THEN LET m == deep_merge(h, tv, sv)
                      IN  SetItem(m.h, t, key, m.r)
                 ELSE IF IsList(h, tv) /\ IsList(h, sv)
                 THEN LET n == Alloc(h, JList(h[tv.a].elems \o h[sv.a].elems))
                      IN  SetItem(n.h, t, key, n.r)
                 ELSE SetItem(h, t, key, sv)
        ELSE SetItem(h, t, key, sv)

\* MergeKey in which the target wins a conflict: a key present in both is
\* overwritten only when both sides hold a dict or both hold a list.
MergeKey_targetwins(h, t, s, key) ==
    LET sv == h[s.a].items[key]
    IN  IF HasKey(h, t, key)
        THEN LET tv == h[t.a].items[key]
             IN  IF IsDict(h, tv) /\ IsDict(h, sv)
                 THEN LET m == deep_merge(h, tv, sv)
                      IN  SetItem(m.h, t, key, m.r)
                 ELSE IF IsList(h, tv) /\ IsList(h, sv)
                 THEN SetItem(h, t, key, sv)
                 ELSE h
        ELSE SetItem(h, t, key, sv)

\* The body of the loop `for key in source` for one key.
MergeKey(h, t, s, key) ==
    LET sv == h[s.a].items[key]
    IN  IF HasKey(h, t, key)
        THEN LET tv == h[t.a].items[key]
             IN  IF IsDict(h, tv) /\ IsDict(h, sv)
                 THEN LET m == deep_merge(h, tv, sv)
                      IN  SetItem(m.h, t, key, m.r)
                 ELSE IF IsList(h, tv) /\ IsList(h, sv)
                 THEN SetItem(h, t, key, sv)
                 ELSE SetItem(h, t, key, sv)
        ELSE SetItem(h, t, key, sv)

\* The loop over the keys of source (which the loop body never changes).
MergeKeys(h, t, s, keys) ==
    IF keys = {} THEN h
    ELSE LET key == CHOOSE x \in keys : TRUE
         IN  MergeKeys(MergeKey(h, t, s, key), t, s, keys \ {key})

\* deep_merge that tests only the target: a dict target swallows a source
\* that is not a dict and is returned as it was.
deep_merge_keep(h, t, s) ==
    IF IsDict(h, t) /\ IsDict(h, s)
    THEN [h |-> MergeKeys(h, t, s, DOMAIN h[s.a].items), r |-> t]
    ELSE IF IsDict(h, t) THEN [h |-> h, r |-> t]
    ELSE [h |-> h, r |-> s]

\* deep_merge that merges into a copy of target and returns the copy.
deep_merge_copy(h, t, s) ==
    IF IsDict(h, t) /\ IsDict(h, s)
    THEN LET c == json_loads(h, json_dumps(h, t))
         IN  [h |-> MergeKeys(c.h, c.r, s, DOMAIN h[s.a].items), r |-> c.r]
    ELSE [h |-> h, r |-> s]

deep_merge(h, t, s) ==
    IF IsDict(h, t) /\ IsDict(h, s)
    THEN [h |-> MergeKeys(h, t, s, DOMAIN h[s.a].items), r |-> t]
    ELSE [h |-> h, r |-> s]

-----------------------------------------------------------------------------
(* Dotted paths.                                                           *)

Dot == "."

\* path.split(".")
RECURSIVE Split(_)
Split(p) ==
    IF \A i \in 1..Len(p) : p[i] # Dot THEN <<p>>
    ELSE LET i == CHOOSE j \in 1..Len(p) :
                      p[j] = Dot /\ \A m \in 1..(j - 1) : p[m] # Dot
         IN  <<SubSeq(p, 1, i - 1)>> \o Split(SubSeq(p, i + 1, Len(p)))

\* keys[:-1]
ButLast(keys) == SubSeq(keys, 1, Len(keys) - 1)

\* obj.get(key): only a dict has the method
DictGet(h, obj, key) ==
    IF ~IsDict(h, obj) THEN Raised
    ELSE IF HasKey(h, obj, key) THEN h[obj.a].items[key] ELSE None

RECURSIVE GetLoop(_, _, _)
\* GetLoop without the isinstance test: .get is called on whatever is there.
GetLoop_unchecked(h, obj, keys) ==
    IF obj = Raised THEN Raised
    ELSE IF keys = <<>> THEN obj
    ELSE IF obj = None THEN None
    ELSE GetLoop(h, DictGet(h, obj, Head(keys)), Tail(keys))

GetLoop(h, obj, keys) ==
    IF obj = Raised THEN Raised
    ELSE IF keys = <<>> THEN obj
    ELSE IF obj = None \/ ~IsDict(h, obj) THEN None
    ELSE GetLoop(h, DictGet(h, obj, Head(keys)), Tail(keys))

get_nested(h, obj, p) == GetLoop(h, obj, Split(p))

\* set_nested: the walk over keys[:-1] and the final assignment.  A tree that
\* is not a dict makes `key not in obj` or the item assignment raise
\* TypeError (ok = FALSE); past the first step obj is always a dict.
RECURSIVE SetLoop(_, _, _, _)
\* SetLoop that creates a dict only for a missing key: an existing value
\* that is not a dict is walked into, and the next step raises.
SetLoop_keep(h, obj, keys, value) ==
    IF ~IsDict(h, obj) THEN [h |-> h, ok |-> FALSE]
    ELSE IF Len(keys) = 1
    THEN [h |-> SetItem(h, obj, keys[1], value), ok |-> TRUE]
    ELSE LET key == Head(keys)
         IN  IF ~HasKey(h, obj, key)
             THEN LET n == Alloc(h, JDict(EmptyMap))
                  IN  SetLoop(SetItem(n.h, obj, key, n.r), n.r, Tail(keys), value)
             ELSE SetLoop(h, h[obj.a].items[key], Tail(keys), value)

\* SetLoop that puts a new dict at every intermediate segment, also where a
\* dict is already held.
SetLoop_fresh(h, obj, keys, value) ==
    IF ~IsDict(h, obj) THEN [h |-> h, ok |-> FALSE]
    ELSE IF Len(keys) = 1
    THEN [h |-> SetItem(h, obj, keys[1], value), ok |-> TRUE]
    ELSE LET n == Alloc(h, JDict(EmptyMap))
         IN  SetLoop(SetItem(n.h, obj, Head(keys), n.r), n.r, Tail(keys), value)

\* SetLoop that forgets to descend: the value is stored under the first
\* segment of the path.
SetLoop_flat(h, obj, keys, value) ==
    IF ~IsDict(h, obj) THEN [h |-> h, ok |-> FALSE]
    ELSE [h |-> SetItem(h, obj, keys[1], value), ok |-> TRUE]

SetLoop(h, obj, keys, value) ==
    IF ~IsDict(h, obj) THEN [h |-> h, ok |-> FALSE]
    ELSE IF Len(keys) = 1
    THEN [h |-> SetItem(h, obj, keys[1], value), ok |-> TRUE]
    ELSE LET key == Head(keys)
         IN  IF ~HasKey(h, obj, key) \/ ~IsDict(h, h[obj.a].items[key])
             THEN LET n == Alloc(h, JDict(EmptyMap))
                  IN  SetLoop(SetItem(n.h, obj, key, n.r), n.r, Tail(keys), value)
             ELSE SetLoop(h, h[obj.a].items[key], Tail(keys), value)

set_nested(h, obj, p, value) == SetLoop(h, obj, Split(p), value)

-----------------------------------------------------------------------------
(* main: the files and the command line.                                   *)

\* A file is missing, holds text that is not JSON, or holds a document.
\* fmt tells the layout of the text: "any" for a file the user wrote,
\* "indent2" for the output of json.dump(..., indent=2).
Missing == [k |-> "missing"]
Garbage == [k |-> "garbage"]
JsonFile(doc, fmt) == [k |-> "json", doc |-> doc, fmt |-> fmt]

Exists(file) == file.k # "missing"
Parses(file) == file.k = "json"

P_ollama == <<"models", Dot, "providers", Dot, "ollama">>
P_model == <<"agents", Dot, "defaults", Dot, "model">>
P_models == <<"agents", Dot, "defaults", Dot, "models">>

\* Sections with the --only-* flags ignored: every mode merges everything.
Sections_all(only_models, only_agents) ==
    << <<P_ollama, P_ollama>>, <<P_model, P_model>>, <<P_models, P_models>> >>

\* lines 108-123: the (src_path, tgt_path) pairs of each mode
Sections(only_models, only_agents) ==
    IF only_models THEN << <<P_ollama, P_ollama>> >>
    ELSE IF only_agents THEN << <<P_model, P_model>>, <<P_models, P_models>> >>
    ELSE << <<P_ollama, P_ollama>>, <<P_model, P_model>>, <<P_models, P_models>> >>

\* lines 149-154: "Ensure parent path exists".  `key not in current` and the
\* subscripts raise TypeError when current is not a dict.
RECURSIVE EnsureParents(_, _, _)
EnsureParents(h, current, parent_keys) ==
    IF parent_keys = <<>> THEN [h |-> h, ok |-> TRUE]
    ELSE IF ~IsDict(h, current) THEN [h |-> h, ok |-> FALSE]
    ELSE LET key == Head(parent_keys)
             h2 == IF ~HasKey(h, current, key)
                   THEN LET n == Alloc(h, JDict(EmptyMap))
                        IN  SetItem(n.h, current, key, n.r)
                   ELSE h
         IN  EnsureParents(h2, h2[current.a].items[key], Tail(parent_keys))

\* No copy at all: the source's own object is stored in the target.
DeepCopy_alias(h, x) == [h |-> h, r |-> x]

\* json.loads(json.dumps(src_val)): the deep copy of line 156
DeepCopy(h, x) == json_loads(h, json_dumps(h, x))

\* lines 148-157: the update of one section of the in-memory target
UpdateSection(h, tgt, tgt_path, src_val) ==
    LET e == EnsureParents(h, tgt, ButLast(Split(tgt_path)))
    IN  IF ~e.ok THEN e
        ELSE LET c == DeepCopy(e.h, src_val)
             IN  set_nested(c.h, tgt, tgt_path, c.r)

\* The loop body without the skip of lines 137-139: an absent or null source
\* value is compared and stored like any other.
LoopBody_noskip(h, src, tgt, sec, dry_run) ==
    LET src_val == get_nested(h, src, sec[1])
        tgt_val == get_nested(h, tgt, sec[2])
    IN  IF dry_run
        THEN [h |-> h,
              verdict |-> IF ~PyEq(h, tgt_val, src_val) THEN "would update"
                          ELSE "already up to date"]
        ELSE IF ~PyEq(h, tgt_val, src_val)
        THEN LET u == UpdateSection(h, tgt, sec[2], src_val)
             IN  [h |-> u.h, verdict |-> IF u.ok THEN "updated" ELSE "raise"]
        ELSE [h |-> h, verdict |-> "already up to date"]

\* lines 133-159: one iteration of the loop over sections_to_merge.
\* verdict: "skip", "would update", "updated", "already up to date", or
\* "raise" when the iteration ends in an uncaught exception.
LoopBody(h, src, tgt, sec, dry_run) ==
    LET src_val == get_nested(h, src, sec[1])
        tgt_val == get_nested(h, tgt, sec[2])
    IN  IF src_val = None THEN [h |-> h, verdict |-> "skip"]
        ELSE IF dry_run
        THEN [h |-> h,
              verdict |-> IF ~PyEq(h, tgt_val, src_val) THEN "would update"
                          ELSE "already up to date"]
        ELSE IF ~PyEq(h, tgt_val, src_val)
        THEN LET u == UpdateSection(h, tgt, sec[2], src_val)
             IN  [h |-> u.h, verdict |-> IF u.ok THEN "updated" ELSE "raise"]
        ELSE [h |-> h, verdict |-> "already up to date"]

-----------------------------------------------------------------------------
(* The documents the driver is run on.                                     *)

\* {k: v} and {k1: v1, k2: v2}
D1(k, v) == JDict(K(k) :> v)
D2(k1, v1, k2, v2) == JDict((K(k1) :> v1) @@ (K(k2) :> v2))
\* A dict given as a set of <<key token, value>> pairs
DictOf(pairs) == JDict([k \in {K(p[1]) : p \in pairs} |->
                           (CHOOSE p \in pairs : K(p[1]) = k)[2]])

ModelIds == <<"m1", "m2", "m3", "m4">>
\* [{"id": "m1"}, ..., {"id": "m<n>"}]
ModelList(n) == JList([i \in 1..n |-> D1("id", JStr(ModelIds[i]))])

OllamaNew == D1("models", ModelList(MaxModels))
OllamaOld == D1("models", JList(<<D1("id", JStr("old"))>>))
ModelNew == D1("primary", JStr("m1"))
ModelOld == D1("primary", JStr("old"))
AliasesNew == D1("m2", D1("alias", JStr("s2")))
AliasesOld == D1("m1", D1("alias", JStr("s1")))

\* The value under "models" / under "agents", or no such key (<<>>).
SourceModelsParts ==
    {<<>>} \cup {<<D1("providers", D1("ollama", v))>> :
                    v \in {OllamaNew, None, JInt(1)}}
SourceAgentsParts ==
    {<<>>} \cup {<<D1("defaults", d)>> :
                    d \in {D1("model", ModelNew),
                           D2("model", ModelNew, "models", AliasesNew),
                           D1("models", AliasesNew)}}
TargetModelsParts ==
    {<<>>, <<JInt(1)>>, <<D1("providers", JInt(1))>>}
    \cup {<<D1("providers", D1("ollama", v))>> :
             v \in {OllamaOld, OllamaNew, JBool(TRUE)}}
TargetAgentsParts ==
    {<<>>, <<None>>, <<D1("defaults", JDict(EmptyMap))>>,
     <<D1("defaults", D1("model", ModelOld))>>,
     <<D1("defaults", D2("model", ModelNew, "models", AliasesOld))>>}

\* A top-level document from its parts; a target also holds a key of its own.
Doc(m, a, extra) ==
    DictOf((IF m = <<>> THEN {} ELSE {<<"models", m[1]>>})
           \cup (IF a = <<>> THEN {} ELSE {<<"agents", a[1]>>})
           \cup extra)

SourceDocs ==
    {Doc(m, a, {}) : m \in SourceModelsParts, a \in SourceAgentsParts}
    \cup {JInt(1)}
TargetDocs ==
    {Doc(m, a, {<<"gateway", JInt(1)>>}) :
        m \in TargetModelsParts, a \in TargetAgentsParts}
    \cup {JList(<<>>)}

SourceFiles == {Missing, Garbage} \cup {JsonFile(d, "any") : d \in SourceDocs}
\* A target file is any JSON text, or the text a previous run of the driver
\* wrote (json.dump with indent=2).
TargetFiles ==
    {Missing, Garbage}
    \cup {JsonFile(d, f) : d \in TargetDocs, f \in {"any", "indent2"}}

Flags == [dry_run : BOOLEAN, backup : BOOLEAN, only_models : BOOLEAN,
          only_agents : BOOLEAN, help_requested : BOOLEAN]

-----------------------------------------------------------------------------
(* main, step by step.  One process runs at a time; a run that has ended   *)
(* may be followed by another run with the same command line.              *)

NoFlags == [dry_run |-> FALSE, backup |-> FALSE, only_models |-> FALSE,
            only_agents |-> FALSE, help_requested |-> FALSE]

\* The library-call variables are idle while the driver runs.
LibIdle ==
    /\ path = <<>>
    /\ ret = None
    /\ heap0 = <<>>
    /\ first = None
    /\ source2 = None
    /\ heap1 = <<>>

Init ==
    /\ fs \in [source : SourceFiles, target : TargetFiles, backup : {Missing}]
    /\ args \in Flags
    /\ pc = "start"
    /\ heap = <<>>
    /\ source = None
    /\ target = None
    /\ sections_to_merge = <<>>
    /\ changes = <<>>
    /\ skipped = <<>>
    /\ exit_code = -1
    /\ run = 1
    /\ fs0 = fs
    /\ fsInit = fs
    /\ writes = 0
    /\ LibIdle

\* sys.exit(code), an uncaught exception (code 1) or the end of main (code 0)
Exit(code) == pc' = "done" /\ exit_code' = code

\* lines 70-81
ParseArgs ==
    /\ pc = "start"
    /\ IF args.help_requested THEN Exit(0)
       ELSE pc' = "validate" /\ UNCHANGED exit_code
    /\ UNCHANGED <<fs, args, heap, source, target, sections_to_merge, changes,
                   skipped, run, fs0, fsInit, writes, libvars>>

\* lines 90-98
\* ValidatePaths that makes the backup as soon as it sees the target file.
ValidatePaths_backupfirst ==
    /\ pc = "validate"
    /\ fs' = IF args.backup /\ Exists(fs.target)
             THEN [fs EXCEPT !.backup = fs.target]
             ELSE fs
    /\ IF ~Exists(fs.source) THEN Exit(1)
       ELSE IF ~Exists(fs.target) THEN Exit(1)
       ELSE pc' = "load" /\ UNCHANGED exit_code
    /\ UNCHANGED <<args, heap, source, target, sections_to_merge, changes,
                   skipped, run, fs0, fsInit, writes, libvars>>

ValidatePaths ==
    /\ pc = "validate"
    /\ IF ~Exists(fs.source) THEN Exit(1)
       ELSE IF ~Exists(fs.target) THEN Exit(1)
       ELSE pc' = "load" /\ UNCHANGED exit_code
    /\ UNCHANGED <<fs, args, heap, source, target, sections_to_merge, changes,
                   skipped, run, fs0, fsInit, writes, libvars>>

\* lines 100-105: json.load raises JSONDecodeError on text that is not JSON
LoadConfigs ==
    /\ pc = "load"
    /\ IF ~Parses(fs.source)
       THEN Exit(1) /\ UNCHANGED <<heap, source, target>>
       ELSE LET s == json_loads(heap, fs.source.doc)
            IN  IF ~Parses(fs.target)
                THEN /\ Exit(1)
                     /\ heap' = s.h
                     /\ source' = s.r
                     /\ UNCHANGED target
                ELSE LET t == json_loads(s.h, fs.target.doc)
                     IN  /\ heap' = t.h
                         /\ source' = s.r
                         /\ target' = t.r
                         /\ pc' = "select"
                         /\ UNCHANGED exit_code
    /\ UNCHANGED <<fs, args, sections_to_merge, changes, skipped, run, fs0, fsInit,
                   writes, libvars>>

\* lines 107-131
SelectSections ==
    /\ pc = "select"
    /\ sections_to_merge' = Sections(args.only_models, args.only_agents)
    /\ changes' = <<>>
    /\ pc' = "loop"
    /\ UNCHANGED <<fs, args, heap, source, target, skipped, exit_code, run,
                   fs0, fsInit, writes, libvars>>

\* lines 133-159: one iteration
ProcessSection ==
    /\ pc = "loop"
    /\ sections_to_merge # <<>>
    /\ LET sec == Head(sections_to_merge)
           b == LoopBody(heap, source, target, sec, args.dry_run)
       IN  /\ heap' = b.h
           /\ IF b.verdict = "raise"
              THEN Exit(1) /\ UNCHANGED <<sections_to_merge, changes, skipped>>
              ELSE /\ sections_to_merge' = Tail(sections_to_merge)
                   /\ UNCHANGED <<pc, exit_code>>
                   /\ IF b.verdict = "skip"
                      THEN /\ skipped' = Append(skipped, sec[1])
                           /\ UNCHANGED changes
                      ELSE /\ changes' = Append(changes, <<sec[2], b.verdict>>)
                           /\ UNCHANGED skipped
    /\ UNCHANGED <<fs, args, source, target, run, fs0, fsInit, writes, libvars>>

\* Report without the early exit of a dry run: the run goes on to write.
Report_fallthrough ==
    /\ pc = "loop"
    /\ sections_to_merge = <<>>
    /\ pc' = "backup"
    /\ UNCHANGED <<fs, args, heap, source, target, sections_to_merge, changes,
                   skipped, exit_code, run, fs0, fsInit, writes, libvars>>

\* Report entered one iteration early: the last section is never processed.
Report_early ==
    /\ pc = "loop"
    /\ Len(sections_to_merge) <= 1
    /\ IF args.dry_run THEN Exit(0)
       ELSE pc' = "backup" /\ UNCHANGED exit_code
    /\ UNCHANGED <<fs, args, heap, source, target, sections_to_merge, changes,
                   skipped, run, fs0, fsInit, writes, libvars>>

\* lines 161-167
Report ==
    /\ pc = "loop"
    /\ sections_to_merge = <<>>
    /\ IF args.dry_run THEN Exit(0)
       ELSE pc' = "backup" /\ UNCHANGED exit_code
    /\ UNCHANGED <<fs, args, heap, source, target, sections_to_merge, changes,
                   skipped, run, fs0, fsInit, writes, libvars>>

\* A backup made by dumping the in-memory target instead of copying the file.
CreateBackup_dump ==
    /\ pc = "backup"
    /\ fs' = IF args.backup
             THEN [fs EXCEPT !.backup = JsonFile(json_dumps(heap, target), "indent2")]
             ELSE fs
    /\ pc' = "write"
    /\ UNCHANGED <<args, heap, source, target, sections_to_merge, changes,
                   skipped, exit_code, run, fs0, fsInit, writes, libvars>>

\* A backup that is made only when there is none yet: an earlier backup is
\* never overwritten.
CreateBackup_once ==
    /\ pc = "backup"
    /\ fs' = IF args.backup /\ ~Exists(fs.backup)
             THEN [fs EXCEPT !.backup = fs.target]
             ELSE fs
    /\ pc' = "write"
    /\ UNCHANGED <<args, heap, source, target, sections_to_merge, changes,
                   skipped, exit_code, run, fs0, fsInit, writes, libvars>>

\* lines 169-173: shutil.copy2 copies the bytes of the target file
CreateBackup ==
    /\ pc = "backup"
    /\ fs' = IF args.backup THEN [fs EXCEPT !.backup = fs.target] ELSE fs
    /\ pc' = "write"
    /\ UNCHANGED <<args, heap, source, target, sections_to_merge, changes,
                   skipped, exit_code, run, fs0, fsInit, writes, libvars>>

\* lines 175-185
WriteTarget ==
    /\ pc = "write"
    /\ fs' = [fs EXCEPT !.target = JsonFile(json_dumps(heap, target), "indent2")]
    /\ writes' = writes + 1
    /\ Exit(0)
    /\ UNCHANGED <<args, heap, source, target, sections_to_merge, changes,
                   skipped, run, fs0, fsInit, libvars>>

\* The same command is run again on the files the previous run left.
NextRun ==
    /\ pc = "done"
    /\ run < MaxRuns
    /\ pc' = "start"
    /\ run' = run + 1
    /\ heap' = <<>>
    /\ source' = None
    /\ target' = None
    /\ sections_to_merge' = <<>>
    /\ changes' = <<>>
    /\ skipped' = <<>>
    /\ exit_code' = -1
    /\ fs0' = fs
    /\ writes' = 0
    /\ UNCHANGED <<fs, args, fsInit, libvars>>

Next ==
    \/ ParseArgs
    \/ ValidatePaths
    \/ LoadConfigs
    \/ SelectSections
    \/ ProcessSection
    \/ Report
    \/ CreateBackup
    \/ WriteTarget
    \/ NextRun

Spec == Init /\ [][Next]_vars

-----------------------------------------------------------------------------
(* The library functions on their own: the trees and paths they are        *)
(* called on.                                                              *)

LibInts == {JInt(1), JInt(2)}
LibLists == {JList([i \in 1..n |-> JInt(i)]) : n \in 0..MaxListLen}
LibLeaves == {None} \cup LibInts \cup LibLists

\* {"a": x, "b": y} where either key may be missing (<<>>)
LibDict(x, y) ==
    DictOf((IF x = <<>> THEN {} ELSE {<<"a", x[1]>>})
           \cup (IF y = <<>> THEN {} ELSE {<<"b", y[1]>>}))
Opt(S) == {<<>>} \cup {<<v>> : v \in S}

\* The dicts nested at most d deep: "a" holds any leaf or a shallower dict,
\* "b" holds an integer.
RECURSIVE LibDicts(_)
LibDicts(d) ==
    IF d = 0 THEN {}
    ELSE {LibDict(x, y) : x \in Opt(LibLeaves \cup LibDicts(d - 1)),
                          y \in Opt(LibInts)}
LibTrees == LibLeaves \cup LibDicts(MaxDepth)

\* The values handed to set_nested: null, a scalar, a dict.
LibValues == {None, JInt(1), JDict(K("b") :> JInt(2))}

\* The second sources of a sequence of merges: {"a": {"b": 2}} and {"b": 1}.
LibSources2 ==
    {LibDict(<<LibDict(<<>>, <<JInt(2)>>)>>, <<>>), LibDict(<<>>, <<JInt(1)>>)}

LibTokens == {"a", "b", Dot}
LibPaths == UNION {[1..n -> LibTokens] : n \in 0..MaxPathLen}

\* The driver's variables are idle while the library is exercised.
DriverIdle ==
    /\ fs = [source |-> Missing, target |-> Missing, backup |-> Missing]
    /\ args = NoFlags
    /\ sections_to_merge = <<>>
    /\ changes = <<>>
    /\ skipped = <<>>
    /\ exit_code = -1
    /\ run = 1
    /\ fs0 = fs
    /\ fsInit = fs
    /\ writes = 0

drivervars == <<fs, args, sections_to_merge, changes, skipped, exit_code,
                run, fs0, fsInit, writes>>

\* deep_merge(target, source), then deep_merge(<result>, source) or
\* deep_merge(target, source2) with a second source made in between
InitMerge ==
    /\ DriverIdle
    /\ \E td \in LibTrees, sd \in LibTrees :
          LET t == json_loads(<<>>, td)
              s == json_loads(t.h, sd)
          IN  /\ heap = s.h
              /\ target = t.r
              /\ source = s.r
    /\ heap0 = heap
    /\ pc = "call"
    /\ path = <<>>
    /\ ret = None
    /\ first = None
    /\ source2 = None
    /\ heap1 = <<>>

CallMerge ==
    /\ pc = "call"
    /\ LET m == deep_merge(heap, target, source)
       IN  /\ heap' = m.h
           /\ ret' = m.r
           /\ first' = json_dumps(m.h, m.r)
    /\ pc' = "merged"
    /\ UNCHANGED <<drivervars, source, target, path, heap0, source2, heap1>>

CallMergeAgain ==
    /\ pc = "merged"
    /\ LET m == deep_merge(heap, ret, source)
       IN  /\ heap' = m.h
           /\ ret' = m.r
    /\ pc' = "merged2"
    /\ UNCHANGED <<drivervars, source, target, path, heap0, first, source2, heap1>>

\* A second source is made and merged into the same target object.
CallMergeOther ==
    /\ pc = "merged"
    /\ \E sd \in LibSources2 :
          LET v == json_loads(heap, sd)
              m == deep_merge(v.h, target, v.r)
          IN  /\ source2' = v.r
              /\ heap1' = v.h
              /\ heap' = m.h
              /\ ret' = m.r
    /\ pc' = "merged3"
    /\ UNCHANGED <<drivervars, source, target, path, heap0, first>>

NextMerge == CallMerge \/ CallMergeAgain \/ CallMergeOther

SpecMerge == InitMerge /\ [][NextMerge]_vars

\* get_nested(target, path), or set_nested(target, path, value) followed by
\* get_nested(target, path); `source` holds the value once it is made.
InitPath ==
    /\ DriverIdle
    /\ \E td \in LibTrees :
          LET t == json_loads(<<>>, td)
          IN  heap = t.h /\ target = t.r
    /\ path \in LibPaths
    /\ source = None
    /\ heap0 = heap
    /\ pc = "call"
    /\ ret = None
    /\ first = None
    /\ source2 = None
    /\ heap1 = <<>>

CallGet ==
    /\ pc = "call"
    /\ ret' = get_nested(heap, target, path)
    /\ pc' = "got"
    /\ UNCHANGED <<drivervars, heap, source, target, path, heap0, first, source2, heap1>>

\* The caller makes the value, then calls set_nested, which returns None
\* unless it raises.
CallSet ==
    /\ pc = "call"
    /\ \E vd \in LibValues :
          LET v == json_loads(heap, vd)
              s == set_nested(v.h, target, path, v.r)
          IN  /\ heap' = s.h
              /\ source' = v.r
              /\ ret' = IF s.ok THEN None ELSE Raised
    /\ pc' = "set"
    /\ UNCHANGED <<drivervars, target, path, heap0, first, source2, heap1>>

CallGetAfterSet ==
    /\ pc = "set"
    /\ ret # Raised
    /\ ret' = get_nested(heap, target, path)
    /\ pc' = "setgot"
    /\ UNCHANGED <<drivervars, heap, source, target, path, heap0, first, source2, heap1>>

NextPath == CallGet \/ CallSet \/ CallGetAfterSet

SpecPath == InitPath /\ [][NextPath]_vars

-----------------------------------------------------------------------------
(* Properties of deep_merge (checked under SpecMerge).                     *)

\* The documents deep_merge was called on, and the document it returned.
Target0 == json_dumps(heap0, target)
Source0 == json_dumps(heap0, source)
Result == json_dumps(heap, ret)
BothDicts == IsDict(heap0, target) /\ IsDict(heap0, source)

\* r is the union of the dicts t and s in which target-only keys keep
\* target's value, source-only keys have source's value, and a key that holds
\* a dict on both sides holds, recursively, such a union.
RECURSIVE IsMergeOf(_, _, _)
IsMergeOf(r, t, s) ==
    /\ r.t = "dict"
    /\ DOMAIN r.items = DOMAIN t.items \cup DOMAIN s.items
    /\ \A k \in DOMAIN r.items :
          IF k \notin DOMAIN s.items THEN r.items[k] = t.items[k]
          ELSE IF k \notin DOMAIN t.items THEN r.items[k] = s.items[k]
          ELSE (t.items[k].t = "dict" /\ s.items[k].t = "dict")
                   => IsMergeOf(r.items[k], t.items[k], s.items[k])

\* C1: deep_merge of two mappings returns a mapping whose keys are the union
\* of both key sets; a key only in target keeps target's value, a key only in
\* source has source's value, and a key holding a mapping on both sides
\* holds the recursive merge of the two, at every depth.
C1_MergeIsUnion ==
    (pc = "merged" /\ BothDicts) => IsMergeOf(Result, Target0, Source0)

\* A merge of two mappings with a source-only key at the top and, below a
\* key that holds a mapping on both sides, a target-only key.
C1_Witness ==
    /\ pc = "merged"
    /\ BothDicts
    /\ DOMAIN Source0.items \ DOMAIN Target0.items # {}
    /\ \E k \in DOMAIN Target0.items \cap DOMAIN Source0.items :
          /\ Target0.items[k].t = "dict"
          /\ Source0.items[k].t = "dict"
          /\ DOMAIN Target0.items[k].items \ DOMAIN Source0.items[k].items # {}
          /\ DOMAIN Source0.items[k].items # {}

\* Wherever t and s both hold a list at the same key (at any depth reached
\* through dicts on both sides), r holds exactly the list of s.
RECURSIVE ListsReplaced(_, _, _)
ListsReplaced(r, t, s) ==
    \A k \in DOMAIN t.items \cap DOMAIN s.items :
       /\ (t.items[k].t = "list" /\ s.items[k].t = "list")
             => (k \in DOMAIN r.items /\ r.items[k] = s.items[k])
       /\ (t.items[k].t = "dict" /\ s.items[k].t = "dict")
             => (k \in DOMAIN r.items /\ r.items[k].t = "dict"
                 /\ ListsReplaced(r.items[k], t.items[k], s.items[k]))

\* C7: for a key present in both mappings whose values are both sequences,
\* the result holds exactly the source sequence, never a concatenation or an
\* element-wise merge.
C7_ListsReplaced ==
    (pc = "merged" /\ BothDicts)
        => (Result.t = "dict" /\ ListsReplaced(Result, Target0, Source0))

\* A merge in which a key holds two different non-empty lists.
C7_Witness ==
    /\ pc = "merged"
    /\ BothDicts
    /\ \E k \in DOMAIN Target0.items \cap DOMAIN Source0.items :
          /\ Target0.items[k].t = "list"
          /\ Source0.items[k].t = "list"
          /\ Len(Target0.items[k].elems) > Len(Source0.items[k].elems)
          /\ Len(Source0.items[k].elems) > 0

\* C8: when target or source is not a mapping, deep_merge returns source
\* itself and changes no object (the target in particular).
C8_NonDictReturnsSource ==
    (pc = "merged" /\ ~BothDicts) => (ret = source /\ heap = heap0)

\* A mapping target merged with a sequence source.
C8_Witness ==
    /\ pc = "merged"
    /\ IsDict(heap0, target)
    /\ IsList(heap0, source)
    /\ DOMAIN Target0.items # {}

\* C9: deep_merge(deep_merge(target, source), source) equals
\* deep_merge(target, source).
C9_Idempotent == pc = "merged2" => Result = first

\* A second application on two mappings that hold a non-empty list at the
\* same key and a mapping at the same key.
C9_Witness ==
    /\ pc = "merged2"
    /\ BothDicts
    /\ \E k \in DOMAIN Target0.items \cap DOMAIN Source0.items :
          /\ Target0.items[k].t = "dict"
          /\ Source0.items[k].t = "dict"
          /\ \E j \in DOMAIN Target0.items[k].items \cap DOMAIN Source0.items[k].items :
                /\ Target0.items[k].items[j].t = "list"
                /\ Source0.items[k].items[j].t = "list"
                /\ Len(Source0.items[k].items[j].elems) > 0

\* Wherever t and s both hold the same key (at any depth reached through
\* dicts on both sides) and the two values are not both dicts, r holds the
\* value of s.
RECURSIVE SourceWins(_, _, _)
SourceWins(r, t, s) ==
    \A k \in DOMAIN t.items \cap DOMAIN s.items :
       /\ k \in DOMAIN r.items
       /\ IF t.items[k].t = "dict" /\ s.items[k].t = "dict"
          THEN /\ r.items[k].t = "dict"
               /\ SourceWins(r.items[k], t.items[k], s.items[k])
          ELSE r.items[k] = s.items[k]

\* C15: deep_merge never raises on a conflict: it returns a value for every
\* pair of trees, and for every key present in both mappings whose values
\* are not both mappings (two scalars, a type mismatch, two sequences) the
\* result holds the source's value at that key.
C15_SourceWinsConflicts ==
    pc = "merged"
        => /\ ret # Raised
           /\ BothDicts => (Result.t = "dict" /\ SourceWins(Result, Target0, Source0))

\* A merge in which a key holds a mapping in target and a scalar in source,
\* and another key holds two different scalars.
C15_Witness ==
    /\ pc = "merged"
    /\ BothDicts
    /\ \E k \in DOMAIN Target0.items \cap DOMAIN Source0.items :
          Target0.items[k].t = "dict" /\ Source0.items[k].t = "int"
    /\ \E k \in DOMAIN Target0.items \cap DOMAIN Source0.items :
          /\ Target0.items[k].t = "int"
          /\ Source0.items[k].t = "int"
          /\ Target0.items[k] # Source0.items[k]

\* C19: when both arguments are mappings, deep_merge returns the target
\* object itself, which holds every key of source afterwards; when either
\* is not a mapping, it returns the source object itself and no object (the
\* target in particular) is changed.
C19_ReturnsTargetItself ==
    pc = "merged"
        => IF BothDicts
           THEN /\ ret = target
                /\ IsDict(heap, target)
                /\ DOMAIN heap[source.a].items \subseteq DOMAIN heap[target.a].items
           ELSE /\ ret = source
                /\ heap = heap0

\* A merge of two mappings that added a key to the target object.
C19_Witness ==
    /\ pc = "merged"
    /\ BothDicts
    /\ ret = target
    /\ DOMAIN heap[target.a].items # DOMAIN heap0[target.a].items

-----------------------------------------------------------------------------
(* Properties of get_nested and set_nested (checked under SpecPath).       *)

\* The value a document holds at a sequence of segments: absent (None) when
\* a non-mapping is reached before the segments are exhausted or a segment
\* is missing.
RECURSIVE DocGet(_, _)
DocGet(d, keys) ==
    IF keys = <<>> THEN d
    ELSE IF d.t # "dict" THEN None
    ELSE IF Head(keys) \notin DOMAIN d.items THEN None
    ELSE DocGet(d.items[Head(keys)], Tail(keys))

\* C10: get_nested never raises; it returns None when the tree is None, when
\* a non-mapping is reached before the path is exhausted or when a segment
\* is missing, and the value at the final segment otherwise.
C10_GetNested ==
    pc = "got" => (ret # Raised /\ Result = DocGet(Target0, Split(path)))

\* A lookup that descends two segments and finds a value.
C10_Witness ==
    /\ pc = "got"
    /\ Len(Split(path)) = 2
    /\ ret # None

\* The document d (a mapping) after a value is stored at a sequence of
\* segments: every segment but the last holds the mapping it held, or a new
\* mapping when it was missing or held anything else.
RECURSIVE DocSet(_, _, _)
DocSet(d, keys, v) ==
    LET k == Head(keys)
    IN  IF Len(keys) = 1
        THEN JDict([j \in DOMAIN d.items \cup {k} |->
                       IF j = k THEN v ELSE d.items[j]])
        ELSE LET sub == IF k \in DOMAIN d.items /\ d.items[k].t = "dict"
                        THEN d.items[k]
                        ELSE JDict(EmptyMap)
             IN  JDict([j \in DOMAIN d.items \cup {k} |->
                           IF j = k THEN DocSet(sub, Tail(keys), v)
                           ELSE d.items[j]])

\* C11: set_nested on a mapping tree never raises; it puts an empty mapping
\* at every segment but the last that is missing or holds a non-mapping
\* (discarding that value), and stores the value at the final segment,
\* overwriting what was there.
C11_SetNested ==
    (pc = "set" /\ IsDict(heap0, target))
        => /\ ret # Raised
           /\ json_dumps(heap, target)
                 = DocSet(Target0, Split(path), json_dumps(heap, source))

\* A store through a first segment that held a scalar or a sequence, and a
\* store that overwrote a mapping at the final segment.
C11_Witness ==
    /\ pc = "set"
    /\ IsDict(heap0, target)
    /\ Len(Split(path)) >= 2
    /\ LET k == Split(path)[1]
       IN  /\ k \in DOMAIN Target0.items
           /\ Target0.items[k].t \in {"int", "list"}
    /\ json_dumps(heap, source) # None

\* C20: for a mapping tree, a dotted path and a value other than null,
\* get_nested(tree, path) after set_nested(tree, path, v) returns v.
C20_RoundTrip ==
    (/\ pc = "setgot"
     /\ IsDict(heap0, target)
     /\ source # None)
    => ret = source

\* A round trip of a mapping value through a path of several segments whose
\* first segment held a scalar.
C20_Witness ==
    /\ pc = "setgot"
    /\ IsDict(heap0, target)
    /\ IsDict(heap, source)
    /\ Len(Split(path)) >= 2
    /\ LET k == Split(path)[1]
       IN  k \in DOMAIN Target0.items /\ Target0.items[k].t = "int"
    /\ ret = source

-----------------------------------------------------------------------------
(* Properties of the driver (checked under Spec).                          *)

\* The mode the flags select (lines 110-123: --only-models wins).
ModelsOnly == args.only_models
AgentsOnly == ~args.only_models /\ args.only_agents
Selected == Sections(args.only_models, args.only_agents)

\* Python's == on two documents
DocPyEq(a, b) ==
    LET x == json_loads(<<>>, a)
        y == json_loads(x.h, b)
    IN  PyEq(y.h, x.r, y.r)

\* The value under a top-level key of a file's document: <<v>>, or <<>>.
TopValue(file, tok) ==
    IF Parses(file) /\ file.doc.t = "dict" /\ K(tok) \in DOMAIN file.doc.items
    THEN <<file.doc.items[K(tok)]>>
    ELSE <<>>

HasChange(p, verdict) == \E i \in 1..Len(changes) : changes[i] = <<p, verdict>>

\* C2: after a non-preview run on parseable files, the target document
\* holds, at every selected path the source has a value for, a value equal
\* to the source's.  (Runs asked only for the help text are not merges.)
C2_SelectedPathsSynced ==
    (/\ pc = "done"
     /\ ~args.help_requested
     /\ ~args.dry_run
     /\ Parses(fs0.source)
     /\ Parses(fs0.target))
    => \A i \in 1..Len(Selected) :
          LET sv == DocGet(fs0.source.doc, Split(Selected[i][1]))
          IN  sv # None
                 => /\ Parses(fs.target)
                    /\ DocPyEq(DocGet(fs.target.doc, Split(Selected[i][2])), sv)

\* C3: a run ends with a non-zero exit status exactly when the source file
\* or the target file is missing or does not parse as JSON.  (Stated of the
\* runs that are not asked for the help text, which exit 0 before any file
\* is looked at.)
C3_ExitStatus ==
    (pc = "done" /\ ~args.help_requested)
    => ((exit_code # 0) <=> \/ ~Exists(fs0.source)
                            \/ ~Exists(fs0.target)
                            \/ ~Parses(fs0.source)
                            \/ ~Parses(fs0.target))

\* C4: a run with --dry-run changes no file and creates no backup file,
\* whatever the other flags are.
C4_DryRunNoMutation == args.dry_run => (fs = fs0 /\ fs.backup = Missing)

\* A finished preview with --backup that found a section to update.
C4_Witness ==
    /\ pc = "done"
    /\ exit_code = 0
    /\ args.dry_run
    /\ args.backup
    /\ ~args.help_requested
    /\ \E i \in 1..Len(changes) : changes[i][2] = "would update"

\* C5: a models-only run leaves the subtree under the target's top-level
\* key agents as it was before the run, and an agents-only run leaves the
\* subtree under models as it was.
C5_OnlyFlagsFrame ==
    /\ ModelsOnly
          => TopValue(fs.target, "agents") = TopValue(fs0.target, "agents")
    /\ AgentsOnly
          => TopValue(fs.target, "models") = TopValue(fs0.target, "models")

\* A models-only run that rewrote the provider section of a target whose
\* agents subtree differs from the agent defaults the source offers.
C5_Witness ==
    /\ pc = "done"
    /\ writes = 1
    /\ ModelsOnly
    /\ HasChange(P_ollama, "updated")
    /\ TopValue(fs0.target, "agents") # <<>>
    /\ DocGet(fs0.source.doc, Split(P_model)) # None
    /\ DocGet(fs0.source.doc, Split(P_model))
          # DocGet(fs0.target.doc, Split(P_model))

\* C6: when the driver merges agents.defaults.models (full or agents-only
\* mode) into a target whose section holds aliases the source section
\* lacks, the resulting section holds the target's aliases and the source's.
C6_AliasesMerged ==
    (/\ pc = "done"
     /\ exit_code = 0
     /\ ~args.help_requested
     /\ ~args.dry_run
     /\ ~ModelsOnly)
    => LET sa == DocGet(fs0.source.doc, Split(P_models))
           ta == DocGet(fs0.target.doc, Split(P_models))
           ra == DocGet(fs.target.doc, Split(P_models))
       IN  (sa.t = "dict" /\ ta.t = "dict" /\ DOMAIN ta.items \ DOMAIN sa.items # {})
              => (ra.t = "dict" /\ (DOMAIN ta.items \cup DOMAIN sa.items) \subseteq DOMAIN ra.items)

\* Some report line of the run names the path p.
Processed(p) ==
    \/ \E i \in 1..Len(skipped) : skipped[i] = p
    \/ \E i \in 1..Len(changes) : changes[i][1] = p

\* C12: when a selected path is absent from a parseable source document,
\* the run skips that path and still ends normally: the target's value at
\* that path is what it was, and every other selected path is processed.
C12_AbsentPathSkipped ==
    (/\ pc = "done"
     /\ ~args.help_requested
     /\ Parses(fs0.source)
     /\ Parses(fs0.target))
    => \A i \in 1..Len(Selected) :
          DocGet(fs0.source.doc, Split(Selected[i][1])) = None
             => /\ exit_code = 0
                /\ \E k \in 1..Len(skipped) : skipped[k] = Selected[i][1]
                /\ Parses(fs.target)
                /\ DocGet(fs.target.doc, Split(Selected[i][2]))
                      = DocGet(fs0.target.doc, Split(Selected[i][2]))
                /\ \A j \in 1..Len(Selected) : Processed(Selected[j][1])

\* C13: with --backup, on a run that reaches the write step, the backup
\* file exists before the target file is written, and it holds the bytes
\* the target file held before the run, not the updated in-memory tree.
C13_BackupBeforeWrite ==
    args.backup
        => /\ pc = "write"
                 => (writes = 0 /\ fs.target = fs0.target /\ fs.backup = fs0.target)
           /\ writes >= 1 => fs.backup = fs0.target

\* A finished run with --backup that rewrote the target with an updated
\* section.
C13_Witness ==
    /\ pc = "done"
    /\ args.backup
    /\ writes = 1
    /\ \E i \in 1..Len(changes) : changes[i][2] = "updated"
    /\ fs.target.doc # fs0.target.doc
    /\ fs.backup = fs0.target

\* The paths of each mode, as the claim lists them.
ModePaths ==
    IF ModelsOnly THEN <<P_ollama>>
    ELSE IF AgentsOnly THEN <<P_model, P_models>>
    ELSE <<P_ollama, P_model, P_models>>

\* d1 is d0 outside the paths of P (a set of segment sequences): whatever
\* is not at, under or on the way to a path of P is the same, and nothing
\* appears off those paths.
RECURSIVE SameOff(_, _, _)
SameOff(d0, d1, P) ==
    IF <<>> \in P THEN TRUE
    ELSE IF P = {} THEN d0 = d1
    ELSE IF d1.t # "dict" THEN d0 = d1
    ELSE LET i0 == IF d0.t = "dict" THEN d0.items ELSE EmptyMap
             i1 == d1.items
         IN  \A k \in DOMAIN i0 \cup DOMAIN i1 :
                IF k \in {Head(p) : p \in P}
                THEN SameOff(IF k \in DOMAIN i0 THEN i0[k] ELSE None,
                             IF k \in DOMAIN i1 THEN i1[k] ELSE None,
                             {Tail(p) : p \in {q \in P : Head(q) = k}})
                ELSE k \in DOMAIN i0 /\ k \in DOMAIN i1 /\ i0[k] = i1[k]

C16_WrittenOnceWhole ==
    /\ writes <= 1
    /\ writes = 0 => fs.target = fs0.target
    /\ writes = 1
          => /\ pc = "done"
             /\ sections_to_merge = <<>>
             /\ \A i \in 1..Len(Selected) :
                   LET sv == DocGet(fs0.source.doc, Split(Selected[i][1]))
                   IN  sv # None
                          => DocPyEq(DocGet(fs.target.doc, Split(Selected[i][2])), sv)

\* A written target in which two differing selected paths were updated.
C16_Witness ==
    /\ writes = 1
    /\ HasChange(P_model, "updated")
    /\ HasChange(P_models, "updated")
    /\ fs.target # fs0.target

\* C17: a second non-preview run with the same source and flags leaves the
\* target document as the first run left it and reports every selected
\* path the source has a value for as already up to date.
C17_SecondRunNoop ==
    (/\ run = 2
     /\ pc = "done"
     /\ ~args.help_requested
     /\ ~args.dry_run
     /\ Parses(fs0.source)
     /\ Parses(fs0.target))
    => /\ Parses(fs.target)
       /\ fs.target.doc = fs0.target.doc
       /\ \A i \in 1..Len(Selected) :
             DocGet(fs0.source.doc, Split(Selected[i][1])) # None
                => HasChange(Selected[i][2], "already up to date")

\* The objects reachable from a value.
RECURSIVE Reach(_, _)
Reach(h, x) ==
    IF ~IsRef(x) THEN {}
    ELSE LET o == h[x.a]
             kids == IF o.t = "dict" THEN {o.items[k] : k \in DOMAIN o.items}
                     ELSE IF o.t = "list" THEN {o.elems[i] : i \in DOMAIN o.elems}
                     ELSE {}
         IN  {x.a} \cup UNION {Reach(h, c) : c \in kids}

\* Both documents are in memory.
Loaded ==
    \/ pc \in {"select", "loop", "backup", "write"}
    \/ /\ pc = "done"
       /\ ~args.help_requested
       /\ Parses(fs0.source)
       /\ Parses(fs0.target)

\* C18: what the driver stores in the target is a copy: the source tree is
\* what was loaded from the source file, and no mapping or sequence object
\* reachable from the target tree is reachable from the source tree.
C18_DeepCopy ==
    Loaded => /\ json_dumps(heap, source) = fs0.source.doc
              /\ Reach(heap, target) \cap Reach(heap, source) = {}

\* A finished run that stored the provider section (a mapping holding a
\* sequence of mappings) and an agents section in the target.
C18_Witness ==
    /\ pc = "done"
    /\ writes = 1
    /\ HasChange(P_ollama, "updated")
    /\ HasChange(P_models, "updated")
    /\ Cardinality(Reach(heap, source)) > MaxModels

-----------------------------------------------------------------------------
(* Sequences of merges into one target (checked under SpecMerge).          *)

\* C21: in a sequence of deep_merge calls into one target from sources that
\* share no object with the target or with each other, every source tree
\* holds after every call what it held when it was made, the sources of
\* earlier calls included.
C21_SourcesUnmodified ==
    /\ pc \in {"merged", "merged2", "merged3"}
          => json_dumps(heap, source) = Source0
    /\ pc = "merged3"
          => json_dumps(heap, source2) = json_dumps(heap1, source2)

-----------------------------------------------------------------------------
(* Further properties of the driver (checked under Spec).                  *)

\* What a --dry-run on the files of this run reports for a section: the
\* loop body applied, as a preview, to the documents as loaded.
PreviewVerdict(sec) ==
    LET s == json_loads(<<>>, fs0.source.doc)
        t == json_loads(s.h, fs0.target.doc)
    IN  LoopBody(t.h, s.r, t.r, sec, TRUE).verdict

\* C22: on parseable documents, in every mode, a non-preview run writes
\* the file and ends normally (as the preview on the same inputs does), and
\* the paths it reports as updated are exactly those the preview reports
\* as "would update".
C22_PreviewPredicts ==
    (/\ pc = "done"
     /\ ~args.help_requested
     /\ ~args.dry_run
     /\ Parses(fs0.source)
     /\ Parses(fs0.target))
    => /\ exit_code = 0
       /\ writes = 1
       /\ \A i \in 1..Len(Selected) :
             PreviewVerdict(Selected[i]) = "would update"
                <=> HasChange(Selected[i][2], "updated")

\* The run meets a fatal failure: a file is missing or is not JSON.
Fatal ==
    \/ ~Exists(fs0.source)
    \/ ~Exists(fs0.target)
    \/ ~Parses(fs0.source)
    \/ ~Parses(fs0.target)

\* C23: on a fatal failure the run never reaches the backup or the write:
\* whatever the flags, no file is changed or created, and (unless only the
\* help text was asked for) the run ends with a non-zero status.
C23_FatalWritesNothing ==
    Fatal => /\ fs = fs0
             /\ fs.backup = Missing
             /\ writes = 0
             /\ pc \notin {"select", "loop", "backup", "write"}
             /\ (pc = "done" /\ ~args.help_requested) => exit_code = 1

\* A run with --backup that loaded the source and died on a target file
\* that is not JSON.
C23_Witness ==
    /\ pc = "done"
    /\ exit_code = 1
    /\ args.backup
    /\ ~args.dry_run
    /\ Parses(fs0.source)
    /\ Exists(fs0.target)
    /\ ~Parses(fs0.target)
    /\ source # None

-----------------------------------------------------------------------------
(* The frame of set_nested (checked under SpecPath).                       *)

\* The dict object that holds the final segment when every segment before
\* it holds a dict; None otherwise.
RECURSIVE Container(_, _, _)
Container(h, obj, keys) ==
    IF Len(keys) = 1 THEN obj
    ELSE IF HasKey(h, obj, Head(keys)) /\ IsDict(h, h[obj.a].items[Head(keys)])
    THEN Container(h, h[obj.a].items[Head(keys)], Tail(keys))
    ELSE None

\* C24: when every intermediate segment of the path holds a mapping,
\* set_nested reuses those mapping objects: the only object it changes is
\* the mapping that holds the final segment, and in that mapping every
\* other key keeps its value.
C24_SetNestedFrame ==
    (/\ pc = "set"
     /\ IsDict(heap0, target)
     /\ Container(heap0, target, Split(path)) # None)
    => LET keys == Split(path)
           c == Container(heap0, target, keys)
           last == keys[Len(keys)]
       IN  /\ ret # Raised
           /\ Container(heap, target, keys) = c
           /\ \A a \in 1..Len(heap0) :
                 IF a = c.a
                 THEN /\ DOMAIN heap[a].items = DOMAIN heap0[a].items \cup {last}
                      /\ \A k \in DOMAIN heap0[a].items \ {last} :
                            heap[a].items[k] = heap0[a].items[k]
                 ELSE heap[a] = heap0[a]

\* A store two segments deep into a tree that holds a sibling key at both
\* levels.
C24_Witness ==
    /\ pc = "set"
    /\ IsDict(heap0, target)
    /\ Len(Split(path)) = 2
    /\ Container(heap0, target, Split(path)) # None
    /\ DOMAIN Target0.items \ {Split(path)[1]} # {}
    /\ DOMAIN heap0[Container(heap0, target, Split(path)).a].items
          \ {Split(path)[2]} # {}
    /\ source # None

-----------------------------------------------------------------------------
(* Null sections and repeated backups (checked under Spec).                *)

\* The document holds the key of the final segment, with the value null.
HoldsNull(d, keys) ==
    LET parent == DocGet(d, ButLast(keys))
        last == keys[Len(keys)]
    IN  /\ parent.t = "dict"
        /\ last \in DOMAIN parent.items
        /\ parent.items[last] = None

\* C25: a selected path that the source holds with the value null is
\* handled like an absent one: when the loop comes to it, it is reported as
\* skipped, never compared or stored, and the target's value at that path,
\* in memory and on disk, stays what it was.
C25_NullIsSkipped ==
    (Loaded /\ Parses(fs0.source) /\ Parses(fs0.target))
    => \A i \in 1..Len(Selected) :
          HoldsNull(fs0.source.doc, Split(Selected[i][1]))
             => /\ \A j \in 1..Len(changes) : changes[j][1] # Selected[i][2]
                /\ (pc = "done" /\ exit_code = 0)
                      => \E k \in 1..Len(skipped) : skipped[k] = Selected[i][1]
                /\ Parses(fs.target)
                /\ DocGet(fs.target.doc, Split(Selected[i][2]))
                      = DocGet(fs0.target.doc, Split(Selected[i][2]))
                /\ DocGet(json_dumps(heap, target), Split(Selected[i][2]))
                      = DocGet(fs0.target.doc, Split(Selected[i][2]))

\* A finished non-preview run whose source holds null at the provider path
\* and whose target holds a provider section there.
C25_Witness ==
    /\ pc = "done"
    /\ exit_code = 0
    /\ writes = 1
    /\ HoldsNull(fs0.source.doc, Split(P_ollama))
    /\ \E k \in 1..Len(skipped) : skipped[k] = P_ollama
    /\ DocGet(fs0.target.doc, Split(P_ollama)) = OllamaOld
    /\ DocGet(fs.target.doc, Split(P_ollama)) = OllamaOld

\* A non-preview run with --backup on files that exist and parse.
BackupRun ==
    /\ args.backup
    /\ ~args.dry_run
    /\ ~args.help_requested
    /\ Parses(fsInit.source)
    /\ Parses(fsInit.target)

====
